---- MODULE Spec2Model ----
(***************************************************************************)
(* Model of the sequential-thinking tool of src/mcp/linear-server.ts:     *)
(* the module-level ledger (thoughtHistory, branches), processThought,    *)
(* the input schema of the "sequentialthinking" tool and its handler.     *)
(*                                                                         *)
(* JavaScript strings are tuples of one-character strings, so that the    *)
(* property-key rules of plain objects (integer-like keys, inherited      *)
(* names, the empty string) are computed and not tabulated.               *)
(* JSON values arriving at the tool are tagged tuples:                    *)
(*   <<"undefined">>, <<"string", s>>, <<"boolean", b>>,                  *)
(*   <<"number", n, d>>   (the number n/d).                               *)
(***************************************************************************)
EXTENDS Integers, Sequences, FiniteSets, TLC

VARIABLES thoughtHistory, branches, request, response, submitted,
          inflight, answers, toolCall, toolResult

vars == <<thoughtHistory, branches, request, response, submitted,
          inflight, answers, toolCall, toolResult>>

\* The state of the thought ledger and of its callers.
ledgerVars == <<thoughtHistory, branches, request, response, submitted,
                inflight, answers>>

\* The last issue-tracker tool call and its result.
linearVars == <<toolCall, toolResult>>

(* ---------------------------- bounds ----------------------------------- *)

\* Submissions are offered while the history is shorter than this.
MaxHistory == 3

\* Largest thoughtNumber / totalThoughts a caller sends.
MaxNum == 2

\* Longest errors list the remote API answers with.
MaxErrors == 1

(* ------------------------- JavaScript values --------------------------- *)

Undefined == <<"undefined">>
Null == <<"null">>
JStr(s) == <<"string", s>>
JBool(b) == <<"boolean", b>>
JNum(n, d) == <<"number", n, d>>

TypeOf(v) == v[1]

\* ToBoolean of the values an entry's branchId can hold (string | null).
Truthy(v) ==
  CASE TypeOf(v) = "string" -> Len(v[2]) > 0
    [] TypeOf(v) = "boolean" -> v[2]
    [] TypeOf(v) = "number" -> v[2] # 0
    [] OTHER -> FALSE

\* a ?? b
Coalesce(v, dflt) == IF TypeOf(v) \in {"undefined", "null"} THEN dflt ELSE v

(* ------------------- plain-object property semantics ------------------- *)

DigitChars == {"0", "1", "2", "3", "4", "5", "6", "7", "8", "9"}

DigitValue(c) ==
  CASE c = "0" -> 0 [] c = "1" -> 1 [] c = "2" -> 2 [] c = "3" -> 3
    [] c = "4" -> 4 [] c = "5" -> 5 [] c = "6" -> 6 [] c = "7" -> 7
    [] c = "8" -> 8 [] c = "9" -> 9

\* Numeric order of two canonical decimal strings: by length, then digit
\* by digit.
RECURSIVE IndexLeq(_, _)
IndexLeq(a, b) ==
  IF Len(a) # Len(b) THEN Len(a) < Len(b)
  ELSE IF Len(a) = 0 THEN TRUE
  ELSE IF DigitValue(a[1]) # DigitValue(b[1])
       THEN DigitValue(a[1]) < DigitValue(b[1])
       ELSE IndexLeq(Tail(a), Tail(b))

\* 2^32 - 2, the largest array index.
MaxArrayIndex == <<"4","2","9","4","9","6","7","2","9","4">>

\* A property key is an array index when it is the canonical decimal form
\* of an integer in 0 .. 2^32 - 2.
IsArrayIndex(s) ==
  /\ Len(s) >= 1
  /\ \A i \in 1..Len(s) : s[i] \in DigitChars
  /\ (Len(s) > 1 => s[1] # "0")
  /\ IndexLeq(s, MaxArrayIndex)

\* Names every plain object inherits from Object.prototype.
ObjectPrototypeNames ==
  { <<"c","o","n","s","t","r","u","c","t","o","r">>,
    <<"t","o","S","t","r","i","n","g">>,
    <<"v","a","l","u","e","O","f">>,
    <<"h","a","s","O","w","n","P","r","o","p","e","r","t","y">>,
    <<"_","_","p","r","o","t","o","_","_">> }

\* An object is the sequence of its own properties, [key, value], in
\* creation order.
OwnKeys(obj) == {obj[i].key : i \in 1..Len(obj)}

OwnIndex(obj, k) == CHOOSE i \in 1..Len(obj) : obj[i].key = k

\* obj[k]: "own" (an array this code created), "inherited" (a truthy value
\* of Object.prototype that is no array) or "undefined".
Lookup(obj, k) ==
  IF k \in OwnKeys(obj) THEN "own"
  ELSE IF k \in ObjectPrototypeNames THEN "inherited"
  ELSE "undefined"

GetOwn(obj, k) == obj[OwnIndex(obj, k)].value

\* obj[k] = []
DefineOwn(obj, k) == Append(obj, [key |-> k, value |-> <<>>])

\* obj[k].push(e) on an own array
PushOwn(obj, k, e) ==
  [obj EXCEPT ![OwnIndex(obj, k)].value = Append(@, e)]

RECURSIVE SortIndexKeys(_)
SortIndexKeys(S) ==
  IF S = {} THEN <<>>
  ELSE LET m == CHOOSE k \in S : \A o \in S : IndexLeq(k, o)
       IN <<m>> \o SortIndexKeys(S \ {m})

RECURSIVE StringKeysInOrder(_)
StringKeysInOrder(obj) ==
  IF Len(obj) = 0 THEN <<>>
  ELSE LET rest == StringKeysInOrder(SubSeq(obj, 1, Len(obj) - 1))
           k == obj[Len(obj)].key
       IN IF IsArrayIndex(k) THEN rest ELSE Append(rest, k)

\* Object.keys(obj): array-index keys in ascending numeric order, then the
\* other string keys in creation order.
ObjectKeys(obj) ==
  SortIndexKeys({k \in OwnKeys(obj) : IsArrayIndex(k)}) \o StringKeysInOrder(obj)

(* ------------------ input schema of "sequentialthinking" --------------- *)

\* z.string()
ZString(v) == TypeOf(v) = "string"

\* z.boolean()
ZBoolean(v) == TypeOf(v) = "boolean"

\* z.number().int().min(1)
ZIntMin1(v) ==
  /\ TypeOf(v) = "number"
  /\ v[2] % v[3] = 0
  /\ v[2] >= v[3]

\* Mutant of InputSchema: the numbers lose .int().min(1).
InputSchemaAnyNumber(args) ==
  /\ ZString(args.thought)
  /\ TypeOf(args.thoughtNumber) = "number"
  /\ TypeOf(args.totalThoughts) = "number"
  /\ ZBoolean(args.nextThoughtNeeded)
  /\ (args.isRevision = Undefined \/ ZBoolean(args.isRevision))
  /\ (args.revisesThought = Undefined \/ ZIntMin1(args.revisesThought))
  /\ (args.branchFromThought = Undefined \/ ZIntMin1(args.branchFromThought))
  /\ (args.branchId = Undefined \/ ZString(args.branchId))

\* Mutant of InputSchema: thought only has to be present.
InputSchemaAnyThought(args) ==
  /\ TypeOf(args.thought) # "undefined"
  /\ ZIntMin1(args.thoughtNumber)
  /\ ZIntMin1(args.totalThoughts)
  /\ ZBoolean(args.nextThoughtNeeded)
  /\ (args.isRevision = Undefined \/ ZBoolean(args.isRevision))
  /\ (args.revisesThought = Undefined \/ ZIntMin1(args.revisesThought))
  /\ (args.branchFromThought = Undefined \/ ZIntMin1(args.branchFromThought))
  /\ (args.branchId = Undefined \/ ZString(args.branchId))

\* The raw shape handed to server.tool: the handler runs only on arguments
\* that satisfy it.
InputSchema(args) ==
  /\ ZString(args.thought)
  /\ ZIntMin1(args.thoughtNumber)
  /\ ZIntMin1(args.totalThoughts)
  /\ ZBoolean(args.nextThoughtNeeded)
  /\ (args.isRevision = Undefined \/ ZBoolean(args.isRevision))
  /\ (args.revisesThought = Undefined \/ ZIntMin1(args.revisesThought))
  /\ (args.branchFromThought = Undefined \/ ZIntMin1(args.branchFromThought))
  /\ (args.branchId = Undefined \/ ZString(args.branchId))

\* What the handler is called with: .default(false) fills isRevision in.
ParsedArgs(args) ==
  [args EXCEPT !.isRevision = IF @ = Undefined THEN JBool(FALSE) ELSE @]

(* ------------------------------ handler -------------------------------- *)

\* Mutant of EntryOf: branchFromThought is filled from revisesThought.
EntryOfCrossedReferences(parsed) ==
  [ thought           |-> parsed.thought[2],
    thoughtNumber     |-> parsed.thoughtNumber[2] \div parsed.thoughtNumber[3],
    totalThoughts     |-> parsed.totalThoughts[2] \div parsed.totalThoughts[3],
    isRevision        |-> IF Truthy(parsed.isRevision) THEN TRUE ELSE FALSE,
    revisesThought    |-> Coalesce(parsed.revisesThought, Null),
    branchFromThought |-> Coalesce(parsed.revisesThought, Null),
    branchId          |-> Coalesce(parsed.branchId, Null),
    needsMoreThoughts |-> parsed.nextThoughtNeeded[2] ]

\* const entry: ThoughtEntry = { ... }
EntryOf(parsed) ==
  [ thought           |-> parsed.thought[2],
    thoughtNumber     |-> parsed.thoughtNumber[2] \div parsed.thoughtNumber[3],
    totalThoughts     |-> parsed.totalThoughts[2] \div parsed.totalThoughts[3],
    isRevision        |-> IF Truthy(parsed.isRevision) THEN TRUE ELSE FALSE,
    revisesThought    |-> Coalesce(parsed.revisesThought, Null),
    branchFromThought |-> Coalesce(parsed.branchFromThought, Null),
    branchId          |-> Coalesce(parsed.branchId, Null),
    needsMoreThoughts |-> parsed.nextThoughtNeeded[2] ]

(* --------------------------- processThought ---------------------------- *)

\* Mutant of Normalize: the estimate is overwritten whenever it differs.
NormalizeOverwrite(input) ==
  [input EXCEPT !.totalThoughts = input.thoughtNumber]

\* Mutant of Normalize: the estimate is never adjusted.
NormalizeNever(input) == input

\* Adjust total if we've exceeded the estimate
Normalize(input) ==
  IF input.thoughtNumber > input.totalThoughts
  THEN [input EXCEPT !.totalThoughts = input.thoughtNumber]
  ELSE input

\* Mutant of PushHistory: unshift instead of push.
PushHistoryFront(hist, input) == <<input>> \o hist

\* Mutant of PushHistory: a labelled entry goes to its branch only.
PushHistoryUnlabelled(hist, input) ==
  IF Truthy(input.branchId) THEN hist ELSE Append(hist, input)

\* thoughtHistory.push(input)
PushHistory(hist, input) == Append(hist, input)

\* Track branches. threw: the push was attempted on a value that is no
\* array (a name inherited from Object.prototype), a TypeError.
TrackBranches(br, input) ==
  IF ~Truthy(input.branchId)
  THEN [threw |-> FALSE, branches |-> br]
  ELSE LET k == input.branchId[2]
           br1 == IF Lookup(br, k) = "undefined" THEN DefineOwn(br, k) ELSE br
       IN IF Lookup(br1, k) = "own"
          THEN [threw |-> FALSE, branches |-> PushOwn(br1, k, input)]
          ELSE [threw |-> TRUE, branches |-> br1]

NoResponse ==
  [ kind |-> "none", isError |-> FALSE,
    thoughtNumber |-> 0, totalThoughts |-> 0, nextThoughtNeeded |-> FALSE,
    branches |-> <<>>, thoughtHistoryLength |-> 0 ]

\* Mutant of Summary: the length is the one read before the push.
SummaryStaleLength(input, br, hist) ==
  [ kind |-> "summary", isError |-> FALSE,
    thoughtNumber |-> input.thoughtNumber,
    totalThoughts |-> input.totalThoughts,
    nextThoughtNeeded |-> input.needsMoreThoughts,
    branches |-> ObjectKeys(br),
    thoughtHistoryLength |-> Len(hist) - 1 ]

RECURSIVE LargestTotal(_)
LargestTotal(hist) ==
  IF Len(hist) = 0 THEN 0
  ELSE LET m == LargestTotal(Tail(hist))
       IN IF hist[1].totalThoughts > m THEN hist[1].totalThoughts ELSE m

\* Mutant of Summary: the total reported is the largest one seen so far.
SummaryRunningTotal(input, br, hist) ==
  [ kind |-> "summary", isError |-> FALSE,
    thoughtNumber |-> input.thoughtNumber,
    totalThoughts |-> LargestTotal(hist),
    nextThoughtNeeded |-> input.needsMoreThoughts,
    branches |-> ObjectKeys(br),
    thoughtHistoryLength |-> Len(hist) ]

\* The object processThought returns, as the handler answers it.
Summary(input, br, hist) ==
  [ kind |-> "summary", isError |-> FALSE,
    thoughtNumber |-> input.thoughtNumber,
    totalThoughts |-> input.totalThoughts,
    nextThoughtNeeded |-> input.needsMoreThoughts,
    branches |-> ObjectKeys(br),
    thoughtHistoryLength |-> Len(hist) ]

\* The handler's catch block: { content: "Error: ...", isError: true }.
ErrorResult == [NoResponse EXCEPT !.kind = "error", !.isError = TRUE]

\* The answer to arguments the schema rejects; the handler is not run.
ValidationError == [NoResponse EXCEPT !.kind = "invalid", !.isError = TRUE]

\* Mutant of ProcessThought: the summary is built from the ledger as it
\* was read before this call's own pushes.
ProcessThoughtStaleSnapshot(hist, br, entry) ==
  LET input == Normalize(entry)
      hist1 == PushHistory(hist, input)
      tracked == TrackBranches(br, input)
  IN [ thoughtHistory |-> hist1,
       branches |-> tracked.branches,
       response |-> IF tracked.threw THEN ErrorResult
                    ELSE Summary(input, br, hist) ]

\* processThought as a whole: the ledger after the call, and its outcome.
ProcessThought(hist, br, entry) ==
  LET input == Normalize(entry)
      hist1 == PushHistory(hist, input)
      tracked == TrackBranches(br, input)
  IN [ thoughtHistory |-> hist1,
       branches |-> tracked.branches,
       response |-> IF tracked.threw THEN ErrorResult
                    ELSE Summary(input, tracked.branches, hist1) ]

(* ------------------------------ requests ------------------------------- *)

EmptyString == <<>>
LabelA == <<"a">>
LabelB == <<"b">>
LabelOne == <<"1">>
LabelConstructor == <<"c","o","n","s","t","r","u","c","t","o","r">>

Labels == {EmptyString, LabelA, LabelB, LabelOne, LabelConstructor}

\* A thoughtNumber no caller of this model ever submits.
Dangling == JNum(MaxNum + 1, 1)

Plain ==
  [ thought           |-> JStr(<<"s">>),
    thoughtNumber     |-> JNum(1, 1),
    totalThoughts     |-> JNum(1, 1),
    nextThoughtNeeded |-> JBool(TRUE),
    isRevision        |-> Undefined,
    revisesThought    |-> Undefined,
    branchFromThought |-> Undefined,
    branchId          |-> Undefined ]

NumberRequests ==
  { [Plain EXCEPT !.thoughtNumber = JNum(n, 1), !.totalThoughts = JNum(t, 1)] :
      n \in 1..MaxNum, t \in 1..MaxNum }

BranchRequests == { [Plain EXCEPT !.branchId = JStr(l)] : l \in Labels }

OtherRequests ==
  { [Plain EXCEPT !.thought = JStr(EmptyString),
                  !.nextThoughtNeeded = JBool(FALSE)],
    [Plain EXCEPT !.isRevision = JBool(TRUE), !.revisesThought = Dangling],
    [Plain EXCEPT !.isRevision = JBool(FALSE), !.branchFromThought = Dangling,
                  !.branchId = JStr(LabelA),
                  !.thoughtNumber = JNum(MaxNum, 1)] }

\* Arguments that break one constraint of the schema.
BrokenRequests ==
  { [Plain EXCEPT !.thought = Undefined],
    [Plain EXCEPT !.thought = JNum(7, 1)],
    [Plain EXCEPT !.thoughtNumber = JNum(0, 1)],
    [Plain EXCEPT !.thoughtNumber = JNum(3, 2)],
    [Plain EXCEPT !.totalThoughts = Undefined],
    [Plain EXCEPT !.nextThoughtNeeded = Undefined],
    [Plain EXCEPT !.revisesThought = JNum(0, 1)],
    [Plain EXCEPT !.branchFromThought = JNum(0, 1)] }

Requests == NumberRequests \cup BranchRequests \cup OtherRequests \cup BrokenRequests

(* -------------------------- issue-tracker tools ------------------------ *)

\* The tools registered on the Linear server, by the way their handler
\* reads the result of linearRequest:
\*   "nodes"    result.<root>...nodes
\*   "object"   result.<root>
\*   "mutation" result.<root>.success is tested, then <root>.<item> is read
ToolKind ==
  [ get_teams           |-> "nodes",
    get_workflow_states |-> "nodes",
    get_labels          |-> "nodes",
    create_issue        |-> "mutation",
    update_issue        |-> "mutation",
    search_issues       |-> "nodes",
    get_issue           |-> "object",
    add_comment         |-> "mutation",
    get_viewer          |-> "object" ]

Tools == DOMAIN ToolKind

\* HTTP statuses the remote API answers with.
Statuses == {200, 299, 300, 500}

\* errors of the response body: absent, or a list of messages.
ErrorLists ==
  {Undefined} \cup { <<"array", [i \in 1..n |-> "message"]>> : n \in 0..MaxErrors }

\* data of the response body: absent, an object without the root field the
\* tool reads, the complete payload, or a mutation payload with
\* success: false.
DataShapes == {"absent", "empty", "complete", "unsuccessful"}

\* What the collaborator does with one request: fetch rejects (no
\* response), or a response with a status and a body, which may not be JSON.
RemoteOutcomes ==
  { [reached |-> FALSE, status |-> 0, json |-> FALSE,
     errors |-> Undefined, data |-> "absent"] }
  \cup [ reached : {TRUE}, status : Statuses, json : {FALSE},
         errors : {Undefined}, data : {"absent"} ]
  \cup [ reached : {TRUE}, status : Statuses, json : {TRUE},
         errors : ErrorLists, data : DataShapes ]

\* response.ok
ResponseOk(status) == status >= 200 /\ status <= 299

\* if (data.errors): every array is truthy, the empty one included.
ErrorsTruthy(errors) == TypeOf(errors) = "array"

\* Mutant of LinearRequest: errors are an error only when data is missing.
LinearRequestPartialData(remote) ==
  IF ~remote.reached THEN [threw |-> TRUE, data |-> "absent"]
  ELSE IF ~ResponseOk(remote.status) THEN [threw |-> TRUE, data |-> "absent"]
  ELSE IF ~remote.json THEN [threw |-> TRUE, data |-> "absent"]
  ELSE IF ErrorsTruthy(remote.errors) /\ remote.data = "absent"
       THEN [threw |-> TRUE, data |-> "absent"]
  ELSE [threw |-> FALSE, data |-> remote.data]

\* linearRequest: throws when fetch rejects, when the status is not ok,
\* when the body is no JSON, or when the body has errors; returns data.data
\* otherwise.
LinearRequest(remote) ==
  IF ~remote.reached THEN [threw |-> TRUE, data |-> "absent"]
  ELSE IF ~ResponseOk(remote.status) THEN [threw |-> TRUE, data |-> "absent"]
  ELSE IF ~remote.json THEN [threw |-> TRUE, data |-> "absent"]
  ELSE IF ErrorsTruthy(remote.errors) THEN [threw |-> TRUE, data |-> "absent"]
  ELSE [threw |-> FALSE, data |-> remote.data]

\* The handler's reading of the result throws: a property of undefined is
\* read, or a mutation reports success: false.
ReadingThrows(kind, data) ==
  CASE kind = "nodes" -> data \in {"absent", "empty"}
    [] kind = "object" -> data = "absent"
    [] kind = "mutation" -> data \in {"absent", "empty", "unsuccessful"}

\* A tool handler: try { linearRequest; read; return content }
\* catch { return isError }.
ToolHandler(tool, remote) ==
  LET result == LinearRequest(remote)
  IN IF result.threw
     THEN [kind |-> "error", isError |-> TRUE, requestFailed |-> TRUE]
     ELSE IF ReadingThrows(ToolKind[tool], result.data)
     THEN [kind |-> "error", isError |-> TRUE, requestFailed |-> FALSE]
     ELSE [kind |-> "data", isError |-> FALSE, requestFailed |-> FALSE]

NoToolCall ==
  [ tool |-> "none",
    remote |-> [reached |-> FALSE, status |-> 0, json |-> FALSE,
                errors |-> Undefined, data |-> "absent"] ]

NoToolResult == [kind |-> "none", isError |-> FALSE, requestFailed |-> FALSE]

(* ------------------------------- callers ------------------------------- *)

\* Callers whose requests can be in flight at the same time.
Callers == {"c1", "c2"}

\* A caller with no request in flight.
Idle == [pc |-> "idle", request |-> Plain, response |-> NoResponse]

\* What concurrent callers send.
ConcurrentRequests ==
  { Plain,
    [Plain EXCEPT !.branchId = JStr(LabelA)],
    [Plain EXCEPT !.branchId = JStr(LabelOne)],
    [Plain EXCEPT !.branchId = JStr(LabelConstructor)],
    [Plain EXCEPT !.thoughtNumber = JNum(MaxNum, 1)],
    [Plain EXCEPT !.thoughtNumber = JNum(0, 1)] }

(* ------------------------------- actions ------------------------------- *)

\* const thoughtHistory = []; const branches = {};
Init ==
  /\ thoughtHistory = <<>>
  /\ branches = <<>>
  /\ request = Plain
  /\ response = NoResponse
  /\ submitted = 0
  /\ inflight = [c \in Callers |-> Idle]
  /\ answers = <<>>
  /\ toolCall = NoToolCall
  /\ toolResult = NoToolResult

\* A call whose arguments fail the schema: answered without running the
\* handler.
Reject(args) ==
  /\ ~InputSchema(args)
  /\ request' = args
  /\ response' = ValidationError
  /\ UNCHANGED <<thoughtHistory, branches, submitted>>
  /\ UNCHANGED <<inflight, answers, linearVars>>

\* A call whose arguments pass the schema: the handler builds the entry and
\* runs processThought; a throw is caught and answered as an error.
Sequentialthinking(args) ==
  /\ InputSchema(args)
  /\ Len(thoughtHistory) < MaxHistory
  /\ LET out == ProcessThought(thoughtHistory, branches, EntryOf(ParsedArgs(args)))
     IN /\ thoughtHistory' = out.thoughtHistory
        /\ branches' = out.branches
        /\ response' = out.response
  /\ request' = args
  /\ submitted' = submitted + 1
  /\ UNCHANGED <<inflight, answers, linearVars>>

\* One caller, one request at a time.
Next == \E args \in Requests : Reject(args) \/ Sequentialthinking(args)

Spec == Init /\ [][Next]_vars

\* A request arrives on the transport while others may still be pending.
Call(c, args) ==
  /\ inflight[c].pc = "idle"
  /\ Len(thoughtHistory) < MaxHistory
  /\ inflight' = [inflight EXCEPT ![c] =
                    [pc |-> "sent", request |-> args, response |-> NoResponse]]
  /\ UNCHANGED <<thoughtHistory, branches, request, response, submitted, answers>>
  /\ UNCHANGED linearVars

\* The event loop takes up a pending request that fails the schema.
RejectCall(c) ==
  /\ inflight[c].pc = "sent"
  /\ ~InputSchema(inflight[c].request)
  /\ inflight' = [inflight EXCEPT ![c].pc = "answered",
                                  ![c].response = ValidationError]
  /\ UNCHANGED <<thoughtHistory, branches, request, response, submitted, answers>>
  /\ UNCHANGED linearVars

\* The event loop takes up a pending request that passes the schema: the
\* handler body and processThought hold no await, so they run to completion
\* before any other handler is scheduled. answers records, for every entry
\* pushed, the answer its call got.
HandleCall(c) ==
  /\ inflight[c].pc = "sent"
  /\ InputSchema(inflight[c].request)
  /\ LET out == ProcessThought(thoughtHistory, branches,
                               EntryOf(ParsedArgs(inflight[c].request)))
     IN /\ thoughtHistory' = out.thoughtHistory
        /\ branches' = out.branches
        /\ inflight' = [inflight EXCEPT ![c].pc = "answered",
                                        ![c].response = out.response]
        /\ answers' = Append(answers, out.response)
  /\ UNCHANGED <<request, response, submitted, linearVars>>

\* The caller receives its answer and may call again.
Deliver(c) ==
  /\ inflight[c].pc = "answered"
  /\ inflight' = [inflight EXCEPT ![c] = Idle]
  /\ UNCHANGED <<thoughtHistory, branches, request, response, submitted, answers>>
  /\ UNCHANGED linearVars

NextConcurrent ==
  \E c \in Callers :
    \/ \E args \in ConcurrentRequests : Call(c, args)
    \/ RejectCall(c)
    \/ HandleCall(c)
    \/ Deliver(c)

SpecConcurrent == Init /\ [][NextConcurrent]_vars

\* An issue-tracker tool is called and the remote API answers in one of
\* the ways it can.
CallTool(tool, remote) ==
  /\ toolCall' = [tool |-> tool, remote |-> remote]
  /\ toolResult' = ToolHandler(tool, remote)
  /\ UNCHANGED ledgerVars

NextLinear == \E tool \in Tools, remote \in RemoteOutcomes : CallTool(tool, remote)

SpecLinear == Init /\ [][NextLinear]_vars

(* --------------------- vocabulary of the properties -------------------- *)

Max(a, b) == IF a >= b THEN a ELSE b

IsPrefix(s, t) == Len(s) <= Len(t) /\ SubSeq(t, 1, Len(s)) = s

Answered == response.kind # "none"

Returned == response.kind = "summary"

\* The constraints on a submission, as the interface states them.
WellFormedInt(v) == TypeOf(v) = "number" /\ v[2] % v[3] = 0 /\ v[2] >= v[3]

SatisfiesConstraints(args) ==
  /\ TypeOf(args.thought) = "string"
  /\ WellFormedInt(args.thoughtNumber)
  /\ WellFormedInt(args.totalThoughts)
  /\ TypeOf(args.nextThoughtNeeded) = "boolean"
  /\ TypeOf(args.isRevision) \in {"undefined", "boolean"}
  /\ (TypeOf(args.revisesThought) = "undefined" \/ WellFormedInt(args.revisesThought))
  /\ (TypeOf(args.branchFromThought) = "undefined" \/ WellFormedInt(args.branchFromThought))
  /\ TypeOf(args.branchId) \in {"undefined", "string"}

\* n and t of the submission being answered.
RequestedNumber == request.thoughtNumber[2] \div request.thoughtNumber[3]
RequestedTotal == request.totalThoughts[2] \div request.totalThoughts[3]

\* The entries of every branch sequence.
FiledEntries(br) ==
  UNION { {br[i].value[j] : j \in 1..Len(br[i].value)} : i \in 1..Len(br) }

StoredEntries(hist) == {hist[i] : i \in 1..Len(hist)}

(* ------------------------------ properties ----------------------------- *)

\* C1 (monotonic growth): after N submissions that satisfy the input
\* constraints, whatever their numbers, revision fields and branchId, the
\* history holds N entries, and a summary returned by the Nth of them
\* reports thoughtHistoryLength = N.
C1_MonotonicGrowth ==
  /\ Len(thoughtHistory) = submitted
  /\ Returned => response.thoughtHistoryLength = submitted

C1_Witness ==
  /\ Returned
  /\ submitted = 3
  /\ response.thoughtHistoryLength = 3
  /\ \E i \in 1..3 : thoughtHistory[i].isRevision
  /\ \E i \in 1..3 : thoughtHistory[i].branchId # Null

\* C2 (normalization): a summary returned for a submission with
\* thoughtNumber = n and totalThoughts = t carries thoughtNumber = n and
\* totalThoughts = max(n, t).
C2_Normalization ==
  Returned =>
    /\ response.thoughtNumber = RequestedNumber
    /\ response.totalThoughts = Max(RequestedNumber, RequestedTotal)

C2_WitnessRaised == Returned /\ RequestedNumber > RequestedTotal

C2_WitnessUnchanged == Returned /\ RequestedNumber < RequestedTotal

C2_Witness ==
  /\ C2_WitnessRaised
  /\ response.totalThoughts = RequestedNumber
  /\ response.totalThoughts # RequestedTotal

\* The labels the submissions so far carried, each once, in order of first
\* appearance.
RECURSIVE LabelsCarried(_)
LabelsCarried(hist) ==
  IF Len(hist) = 0 THEN <<>>
  ELSE LET rest == LabelsCarried(SubSeq(hist, 1, Len(hist) - 1))
           id == hist[Len(hist)].branchId
       IN IF id = Null \/ id[2] \in {rest[i] : i \in 1..Len(rest)}
          THEN rest
          ELSE Append(rest, id[2])

Occurrences(seq, x) == Cardinality({i \in 1..Len(seq) : seq[i] = x})

CarriedBy(hist, l) ==
  Cardinality({i \in 1..Len(hist) : hist[i].branchId = JStr(l)})

FiledUnder(br, l) == IF l \in OwnKeys(br) THEN Len(GetOwn(br, l)) ELSE 0

\* C3 (branch accumulation): the branches list of every summary is the
\* distinct branchId labels of all submissions so far, in order of first
\* appearance, whatever the label strings are.
C3_BranchAccumulation ==
  Returned => response.branches = LabelsCarried(thoughtHistory)

\* C4 (idempotent branch creation): for every label L carried by k >= 1
\* submissions so far, the returned branches list contains L exactly once
\* and the sequence filed under L has exactly k entries.
C4_IdempotentBranchCreation ==
  Returned =>
    \A l \in Labels :
      CarriedBy(thoughtHistory, l) >= 1 =>
        /\ Occurrences(response.branches, l) = 1
        /\ FiledUnder(branches, l) = CarriedBy(thoughtHistory, l)

\* C5 (no errors for valid input): every submission that satisfies the
\* input constraints is answered with a summary, never with an error.
C5_NoErrorForValidInput ==
  (Answered /\ SatisfiesConstraints(request)) => (Returned /\ ~response.isError)

\* C6 (all-or-nothing): a call answered with an error leaves history and
\* branches exactly as they were before the call.
C6_AllOrNothing ==
  [][response'.isError =>
       (thoughtHistory' = thoughtHistory /\ branches' = branches)]_vars

\* C7 (validation atomicity): a call whose arguments violate an input
\* constraint is answered with an error and leaves history and branches
\* unchanged, and the thoughtHistoryLength of every summary counts exactly
\* the submissions that satisfied the constraints.
C7_ValidationAtomicity ==
  [][/\ ~SatisfiesConstraints(request') =>
          /\ response'.isError
          /\ thoughtHistory' = thoughtHistory
          /\ branches' = branches
     /\ response'.kind = "summary" =>
          response'.thoughtHistoryLength = submitted']_vars

C7_Witness ==
  /\ response.kind = "invalid"
  /\ request.thoughtNumber = JNum(0, 1)
  /\ Len(thoughtHistory) = 2
  /\ Len(branches) = 1

\* C8 (stored-entry invariant): every entry in history and every entry in
\* a branch sequence has totalThoughts >= thoughtNumber.
C8_StoredEntryInvariant ==
  \A e \in StoredEntries(thoughtHistory) \cup FiledEntries(branches) :
    e.totalThoughts >= e.thoughtNumber

C8_Witness ==
  /\ Returned
  /\ RequestedNumber > RequestedTotal
  /\ \E e \in FiledEntries(branches) :
       e.thoughtNumber = RequestedNumber /\ e.totalThoughts = RequestedNumber
  /\ \E e \in StoredEntries(thoughtHistory) : e.totalThoughts > e.thoughtNumber

\* C9 (append-only history): in every step the history before the step is
\* a prefix of the history after it.
C9_AppendOnlyHistory ==
  [][IsPrefix(thoughtHistory, thoughtHistory')]_vars

C9_Witness ==
  /\ Len(thoughtHistory) = 3
  /\ thoughtHistory[1] # thoughtHistory[2]
  /\ thoughtHistory[2] # thoughtHistory[3]
  /\ response.isError

\* C10 (branch entries are history entries): every entry filed in a branch
\* sequence occurs in history, and a step that files an entry in a branch
\* appends that same entry to history.
C10_BranchEntriesInHistory ==
  [][/\ FiledEntries(branches') \subseteq StoredEntries(thoughtHistory')
     /\ branches' # branches =>
          /\ Len(thoughtHistory') = Len(thoughtHistory) + 1
          /\ \E i \in 1..Len(branches') :
               /\ Len(branches'[i].value) >= 1
               /\ branches'[i].value[Len(branches'[i].value)]
                    = thoughtHistory'[Len(thoughtHistory')]]_vars

C10_Witness ==
  /\ Len(branches) = 2
  /\ \E i \in 1..Len(branches) : Len(branches[i].value) = 2
  /\ Len(thoughtHistory) = 3

\* C11 (consistency under concurrent callers): with several callers'
\* requests pending and taken up in any order, every summary returned
\* reports the history length right after its own append, no length is
\* returned twice, and the returned branches are the labels of the branch
\* map right after that append.
C11_ConcurrentConsistency ==
  [][\A c \in Callers :
       (inflight[c].pc = "sent" /\ inflight'[c].response.kind = "summary") =>
         LET r == inflight'[c].response IN
         /\ Len(thoughtHistory') = Len(thoughtHistory) + 1
         /\ r.thoughtHistoryLength = Len(thoughtHistory')
         /\ \A i \in 1..Len(answers) :
              answers[i].kind = "summary" =>
                answers[i].thoughtHistoryLength # r.thoughtHistoryLength
         /\ {r.branches[i] : i \in 1..Len(r.branches)} = OwnKeys(branches')
         /\ Len(r.branches) = Cardinality(OwnKeys(branches'))]_vars

C11_Witness ==
  /\ inflight["c1"].pc = "answered"
  /\ inflight["c2"].pc = "answered"
  /\ inflight["c1"].response.kind = "summary"
  /\ inflight["c2"].response.kind = "summary"
  /\ inflight["c1"].response.thoughtHistoryLength = 3
  /\ inflight["c2"].response.thoughtHistoryLength = 2
  /\ Len(inflight["c1"].response.branches) = 2
  /\ Len(inflight["c2"].response.branches) = 1

\* The submission being answered passed the input constraints, and the
\* handler has run on it.
Accepted == Answered /\ SatisfiesConstraints(request)

LastOf(seq) == seq[Len(seq)]

\* C12 (branch filing): after every valid submission whose branchId is
\* present, whatever string it is (the empty string included), a sequence
\* exists under that label, the submitted entry is its last element, and
\* the label is in the returned branches list.
C12_BranchFiling ==
  (Accepted /\ TypeOf(request.branchId) = "string") =>
    LET l == request.branchId[2] IN
    /\ l \in OwnKeys(branches)
    /\ Len(GetOwn(branches, l)) >= 1
    /\ LastOf(GetOwn(branches, l)) = LastOf(thoughtHistory)
    /\ Returned
    /\ \E i \in 1..Len(response.branches) : response.branches[i] = l

\* C13 (non-empty thought is required), as stated: only entries with a
\* non-empty thought are ever stored in history (a submission whose thought
\* is the empty string is rejected).
C13_NonEmptyThoughtRequired ==
  \A e \in StoredEntries(thoughtHistory) : e.thought # EmptyString

\* C13, amended: a submission whose thought is missing or not a string is
\* rejected with a validation error and leaves the ledger unchanged; every
\* entry stored comes from a submission whose thought is a string, the
\* empty string included, and holds that string.
C13_StringThoughtRequired ==
  [][/\ TypeOf(request'.thought) # "string" =>
          /\ response'.kind = "invalid"
          /\ thoughtHistory' = thoughtHistory
          /\ branches' = branches
     /\ Len(thoughtHistory') > Len(thoughtHistory) =>
          /\ TypeOf(request'.thought) = "string"
          /\ LastOf(thoughtHistory').thought = request'.thought[2]]_vars

C13_Witness ==
  /\ response.kind = "invalid"
  /\ TypeOf(request.thought) # "string"
  /\ \E e \in StoredEntries(thoughtHistory) : e.thought = EmptyString
  /\ \E e \in StoredEntries(thoughtHistory) : e.thought # EmptyString

\* The sequence filed under a label; empty when the branch map has no such
\* key.
SequenceUnder(br, l) == IF l \in OwnKeys(br) THEN GetOwn(br, l) ELSE <<>>

\* The entries of the history that carried a label, in insertion order.
EntriesCarrying(hist, l) == SelectSeq(hist, LAMBDA e : e.branchId = JStr(l))

\* C14 (branch sequences mirror history): for every label L, the sequence
\* filed under L is exactly the subsequence of history made of the entries
\* that carried branchId = L, in the same order.
C14_BranchesMirrorHistory ==
  /\ \A l \in Labels :
       SequenceUnder(branches, l) = EntriesCarrying(thoughtHistory, l)
  /\ OwnKeys(branches) \subseteq Labels

\* C15 (branch-map frame): a submission without a branchId leaves the
\* whole branch map unchanged; a submission with branchId = L leaves the
\* sequence of every other label unchanged and appends exactly one entry,
\* the submitted one, to the sequence of L.
C15_BranchMapFrame ==
  [][submitted' = submitted + 1 =>
       IF TypeOf(request'.branchId) = "undefined"
       THEN branches' = branches
       ELSE LET L == request'.branchId[2] IN
            /\ \A l \in (Labels \cup OwnKeys(branches')) \ {L} :
                 SequenceUnder(branches', l) = SequenceUnder(branches, l)
            /\ SequenceUnder(branches', L) =
                 Append(SequenceUnder(branches, L), LastOf(thoughtHistory'))]_vars

\* What the same request is answered when it is the first one of a fresh
\* ledger.
AnswerOnEmptyLedger(args) ==
  ProcessThought(<<>>, <<>>, EntryOf(ParsedArgs(args))).response

\* C16 (history-independence of the echoed fields): whatever the ledger
\* holds, a valid entry is answered with the thoughtNumber, totalThoughts
\* and nextThoughtNeeded it gets on the empty ledger; nextThoughtNeeded is
\* the submitted flag and the total is max(n, t) of the entry's own numbers.
C16_HistoryIndependence ==
  Accepted =>
    LET fresh == AnswerOnEmptyLedger(request) IN
    /\ response.kind = fresh.kind
    /\ response.thoughtNumber = fresh.thoughtNumber
    /\ response.totalThoughts = fresh.totalThoughts
    /\ response.nextThoughtNeeded = fresh.nextThoughtNeeded
    /\ Returned =>
         /\ response.nextThoughtNeeded = request.nextThoughtNeeded[2]
         /\ response.totalThoughts = Max(RequestedNumber, RequestedTotal)

C16_Witness ==
  /\ Returned
  /\ Len(thoughtHistory) = 3
  /\ ~response.nextThoughtNeeded
  /\ thoughtHistory[1].totalThoughts > response.totalThoughts
  /\ thoughtHistory[2].needsMoreThoughts
  /\ Len(branches) >= 1

\* An optional argument and the field stored for it agree: absent is
\* stored as null, a value is stored as it is.
StoredAs(arg, field) ==
  IF TypeOf(arg) = "undefined" THEN field = Null ELSE field = arg

\* C17 (faithful storage): the entry appended by an accepted submission has
\* the submitted thought, thoughtNumber, revisesThought, branchFromThought,
\* branchId and nextThoughtNeeded (as needsMoreThoughts), isRevision false
\* when omitted, and the submitted totalThoughts unless thoughtNumber
\* exceeds it, in which case thoughtNumber.
C17_FaithfulStorage ==
  Accepted =>
    LET e == LastOf(thoughtHistory) IN
    /\ e.thought = request.thought[2]
    /\ e.thoughtNumber = RequestedNumber
    /\ StoredAs(request.revisesThought, e.revisesThought)
    /\ StoredAs(request.branchFromThought, e.branchFromThought)
    /\ StoredAs(request.branchId, e.branchId)
    /\ e.needsMoreThoughts = request.nextThoughtNeeded[2]
    /\ e.isRevision = IF TypeOf(request.isRevision) = "undefined" THEN FALSE
                      ELSE request.isRevision[2]
    /\ e.totalThoughts = IF RequestedNumber > RequestedTotal
                         THEN RequestedNumber ELSE RequestedTotal

C17_Witness ==
  /\ Accepted
  /\ Len(thoughtHistory) = 3
  /\ RequestedNumber > RequestedTotal
  /\ request.branchFromThought = Dangling
  /\ LastOf(thoughtHistory).branchFromThought = Dangling
  /\ LastOf(thoughtHistory).totalThoughts # RequestedTotal
  /\ thoughtHistory[1].revisesThought = Dangling
  /\ thoughtHistory[1].isRevision
  /\ ~thoughtHistory[2].isRevision
  /\ thoughtHistory[2].thought = EmptyString

\* The remote answered the call with a failure: a status outside 2xx, or a
\* body whose errors list has entries.
CollaboratorFailed(remote) ==
  /\ remote.reached
  /\ \/ remote.status < 200
     \/ remote.status > 299
     \/ (remote.json /\ TypeOf(remote.errors) = "array" /\ Len(remote.errors[2]) > 0)

\* C18 (collaborator failures are surfaced): for every issue-tracker tool,
\* when the remote response has a non-2xx status or a body with a
\* non-empty errors list, linearRequest fails and the tool answers with an
\* error result; a data result is returned only for a 2xx response without
\* entries in errors.
C18_CollaboratorFailuresSurfaced ==
  toolCall.tool # "none" =>
    /\ CollaboratorFailed(toolCall.remote) =>
         (toolResult.requestFailed /\ toolResult.isError /\ toolResult.kind = "error")
    /\ toolResult.kind = "data" =>
         /\ ~toolResult.isError
         /\ toolCall.remote.reached
         /\ toolCall.remote.status >= 200
         /\ toolCall.remote.status <= 299
         /\ (TypeOf(toolCall.remote.errors) = "array" =>
               Len(toolCall.remote.errors[2]) = 0)

C18_Witness ==
  /\ toolCall.tool = "create_issue"
  /\ toolCall.remote.reached
  /\ toolCall.remote.status = 200
  /\ toolCall.remote.json
  /\ TypeOf(toolCall.remote.errors) = "array"
  /\ Len(toolCall.remote.errors[2]) = 1
  /\ toolCall.remote.data = "complete"
  /\ toolResult.isError
  /\ toolResult.requestFailed

C18_WitnessData ==
  /\ toolCall.tool = "get_teams"
  /\ toolCall.remote.status = 299
  /\ toolCall.remote.errors = <<"array", <<>>>> \/ toolCall.remote.errors = Undefined
  /\ toolResult.kind = "data"

====
